---- MODULE Spec2Model ----
(***************************************************************************)
(* The ImageBuild reconciler of bib-operator                               *)
(* (internal/controller/imagebuild_controller.go, internal/scope) run      *)
(* against a cluster store holding ImageBuild objects and builder Pods.    *)
(*                                                                         *)
(* One Reconcile invocation is a sequence of steps, one per call to the    *)
(* cluster client (Get, Update, Create, Delete, Patch); the code between   *)
(* two calls only touches the invocation's in-memory object and is part of *)
(* the step that precedes it.  Users, the kubelet and a foreign finalizer  *)
(* holder act on the store between the steps.  Invocations for the same    *)
(* ImageBuild are serialized by the work queue.                            *)
(*                                                                         *)
(* Store semantics taken from the Kubernetes API machinery the code calls: *)
(*  - an object with a deletion timestamp and no finalizers is removed;    *)
(*  - Update carries the resourceVersion read and fails with Conflict when *)
(*    the object changed since; it does not write status (ImageBuild has   *)
(*    the status subresource) and decodes the server's answer, status      *)
(*    included, into the in-memory object;                                 *)
(*  - no finalizer can be added to an object that is being deleted;        *)
(*  - the patch helper snapshots the object at NewHelper and at Patch      *)
(*    writes the difference between the snapshot and the in-memory object, *)
(*    issuing no call when there is none.  Its internal split into a       *)
(*    conditions, a metadata and a status request is one Patch here;       *)
(*  - a Pod delete removes the Pod (graceful termination is not modelled). *)
(*                                                                         *)
(* A second specification, SpecBuilder, follows one builder pod: the pod   *)
(* constructBuilderPod returns for an ImageBuild of any spec, and the run  *)
(* of the builder script in it, command by command, under `set -e`.  The   *)
(* repository holds two versions of the script, builder/entrypoint.sh and  *)
(* unnamed/part_000; the image may run either.                             *)
(***************************************************************************)
EXTENDS Naturals, Sequences, FiniteSets, TLC

(* ------------------------------ bounds --------------------------------- *)

\* transient failures of cluster calls in one behaviour
MaxFail == 2

(* ----------------------------- constants ------------------------------- *)

Names == {"a", "b"}

builderPodPrefix == "imgbldr-"

PhasePending == "Pending"
PhaseBuilding == "Building"
PhasePublishing == "Publishing"
PhaseSucceeded == "Succeeded"
PhaseFailed == "Failed"

\* "" is the zero value of status.phase: no phase written yet
ImageBuildPhase == {"", PhasePending, PhaseBuilding, PhasePublishing, PhaseSucceeded, PhaseFailed}

BaseImageReady == "BaseImageReady"
BuilderPodReady == "BuilderPodReady"
ProvisionerReady == "ProvisionerReady"
OutputReady == "OutputReady"
PublishReady == "PublishReady"

ImageBuildConditionTypes == {BaseImageReady, BuilderPodReady, ProvisionerReady, OutputReady, PublishReady}

\* state of a condition record; "" is: no record of that type
ConditionStatus == {"", "Unknown", "True", "False"}

\* corev1.PodPhase of a builder pod
PodPhases == {"Pending", "Running", "Succeeded", "Failed"}

(* ------------------------------ objects -------------------------------- *)

NoConditions == [t \in ImageBuildConditionTypes |-> ""]

\* an ImageBuild: finalizer is ImageBuildFinalizer, foreign any other finalizer
NoObject ==
  [exists |-> FALSE, finalizer |-> FALSE, foreign |-> FALSE,
   deletionTimestamp |-> FALSE, phase |-> "", conditions |-> NoConditions]

NewImageBuild(foreign, phase, conditions) ==
  [exists |-> TRUE, finalizer |-> FALSE, foreign |-> foreign,
   deletionTimestamp |-> FALSE, phase |-> phase, conditions |-> conditions]

NoPod == [exists |-> FALSE, phase |-> "", owner |-> ""]

\* a pod name that does not depend on the ImageBuild
PodName_NoName(name) == builderPodPrefix

PodName(name) == builderPodPrefix \o name

PodNames == {PodName(n) : n \in Names}

\* the store removes an object that is being deleted and holds no finalizer
Settle(obj) ==
  IF obj.exists /\ obj.deletionTimestamp /\ ~obj.finalizer /\ ~obj.foreign
  THEN NoObject ELSE obj

NoReturn == [line |-> 0, requeue |-> FALSE, err |-> FALSE]

NoCalls == [update |-> 0, create |-> 0, delete |-> 0, patch |-> 0]

NoScope == [open |-> FALSE, dirty |-> FALSE, patch |-> "none"]

(* ------------------- the input of constructBuilderPod ------------------ *)

Namespaces == {"default", "builds"}

BaseImages == {"ubuntu:24.04", "quay.io/fedora/fedora-bootc:41"}

\* spec.architecture: amd64 or arm64, "" when the default was not applied
Architectures == {"amd64", "arm64", ""}

\* spec.baseImagePullSecretName: "" is no pull secret
PullSecretNames == {"", "regcred"}

\* a Go pointer to a struct is a record whose field nil tells a nil pointer
NilAnsible == [nil |-> TRUE, Repo |-> "", Branch |-> "", Playbook |-> ""]

AnsibleSpecs ==
  {[nil |-> FALSE, Repo |-> "https://git.example/playbooks.git", Branch |-> b,
    Playbook |-> "site.yml"] : b \in {"main", "dev"}}

NilProvisioner == [nil |-> TRUE, Ansible |-> NilAnsible, Packer |-> FALSE]

\* spec.provisioner: absent, or a struct with its ansible and packer pointers
ProvisionerSpecs ==
  {NilProvisioner} \cup
  {[nil |-> FALSE, Ansible |-> a, Packer |-> p] :
     a \in {NilAnsible} \cup AnsibleSpecs, p \in BOOLEAN}

NilPVC == [nil |-> TRUE, Name |-> ""]

\* spec.output: the three variant pointers (ObjectStorage and Registry by
\* whether they are set) and the image name
OutputSpecs ==
  [PVC : {NilPVC, [nil |-> FALSE, Name |-> "images"]},
   ObjectStorage : BOOLEAN, Registry : BOOLEAN, ImageName : {"golden"}]

ImageBuildSpecs ==
  [BaseImage : BaseImages, Architecture : Architectures,
   BaseImagePullSecretName : PullSecretNames,
   Provisioner : ProvisionerSpecs, Output : OutputSpecs]

\* the zero value of ImageBuildSpec
ZeroSpec ==
  [BaseImage |-> "", Architecture |-> "", BaseImagePullSecretName |-> "",
   Provisioner |-> NilProvisioner,
   Output |-> [PVC |-> NilPVC, ObjectStorage |-> FALSE, Registry |-> FALSE,
               ImageName |-> ""]]

\* the ImageBuilds constructBuilderPod is called with
ImageBuilds == [Name : Names, Namespace : Namespaces, Spec : ImageBuildSpecs]

\* output variants set in a spec
OutputVariants(spec) ==
  (IF spec.Output.PVC.nil THEN {} ELSE {"pvc"})
    \cup (IF spec.Output.ObjectStorage THEN {"objectStorage"} ELSE {})
    \cup (IF spec.Output.Registry THEN {"registry"} ELSE {})

EnvVar(name, value) == [Name |-> name, Value |-> value]

EmptyDir(name) ==
  [Name |-> name, EmptyDir |-> TRUE, Secret |-> "", PersistentVolumeClaim |-> ""]

SecretVolume(name, secretName) ==
  [Name |-> name, EmptyDir |-> FALSE, Secret |-> secretName, PersistentVolumeClaim |-> ""]

PVCVolume(name, claimName) ==
  [Name |-> name, EmptyDir |-> FALSE, Secret |-> "", PersistentVolumeClaim |-> claimName]

VolumeMount(name, mountPath, readOnly) ==
  [Name |-> name, MountPath |-> mountPath, ReadOnly |-> readOnly]

EmptyPod ==
  [Name |-> "", Namespace |-> "", NodeSelector |-> {}, RestartPolicy |-> "",
   RunAsUser |-> 0, Privileged |-> FALSE, Image |-> "",
   Env |-> <<>>, VolumeMounts |-> <<>>, Volumes |-> <<>>]

\* constructBuilderPod not called yet
NotConstructed == [called |-> FALSE, pod |-> EmptyPod, err |-> FALSE]

\* the two builder scripts of the repository
Scripts == {"builder/entrypoint.sh", "unnamed/part_000"}

\* a command of a script; test is the variable an enclosing `if [ -n ... ]`
\* tests, "" when the command is unconditional
Command(cmd, test) == [cmd |-> cmd, test |-> test]

\* the commands of a script in the order of the file
Script(script) ==
  IF script = "unnamed/part_000"
  THEN <<Command("from", ""), Command("mount", ""), Command("bind", ""),
         Command("clone", "ANSIBLE_GIT_REPO"), Command("provision", "ANSIBLE_PLAYBOOK"),
         Command("unbind", ""), Command("umount", ""), Command("mount", ""),
         Command("archive", ""), Command("umount", ""), Command("rm", "")>>
  ELSE <<Command("clone", "GIT_REPO"), Command("from", ""), Command("mount", ""),
         Command("provision", "PLAYBOOK"), Command("umount", ""), Command("mount", ""),
         Command("archive", ""), Command("umount", ""), Command("rm", "")>>

\* the variables a script tests
ScriptTests(script) ==
  {Script(script)[i].test : i \in DOMAIN Script(script)} \ {""}

\* no script started
NoWorker ==
  [script |-> "", env |-> <<>>, authFile |-> FALSE, pc |-> 0, status |-> "none",
   exit |-> 0, failed |-> "", trace |-> <<>>,
   container |-> FALSE, mounted |-> 0, devBound |-> FALSE]

(* ------------------------------- state --------------------------------- *)

VARIABLES
  live,        \* names of the ImageBuilds of this behaviour
  imageBuilds, \* store: name -> ImageBuild object
  pods,        \* store: pod name -> Pod
  queue,       \* work queue of the controller: names waiting for Reconcile
  changed,     \* names whose stored object changed since Reconcile read it
  fails,       \* transient call failures so far
  pc,          \* name -> the call the running invocation is at
  ib,          \* name -> the invocation's in-memory ImageBuild
  before,      \* name -> the patch helper's snapshot
  builderPod,  \* name -> what the lookup of the builder pod returned
  ibs,         \* name -> the scope: defer registered, conditions set, patch result
  ret,         \* name -> source line, result and error of the return statement
  calls,       \* name -> mutating calls issued by the invocation, by kind
  creates,     \* name -> successful builder pod creates so far
  imageBuild,  \* the ImageBuild handed to constructBuilderPod
  constructed, \* what constructBuilderPod returned
  worker       \* the run of the builder script in the constructed pod

\* the state of one builder pod, from its construction to the script's exit
builderVars == <<imageBuild, constructed, worker>>

\* the state of the store and of the Reconcile invocations
controllerVars == <<live, imageBuilds, pods, queue, changed, fails, pc, ib, before,
                    builderPod, ibs, ret, calls, creates>>

vars == <<live, imageBuilds, pods, queue, changed, fails, pc, ib, before,
          builderPod, ibs, ret, calls, creates, imageBuild, constructed, worker>>

(* --------------------------- pure functions ---------------------------- *)

\* scope.InitializeConditions: Unknown for every type without a record
InitializeConditions(obj) ==
  [obj EXCEPT !.conditions =
     [t \in ImageBuildConditionTypes |->
        IF obj.conditions[t] = "" THEN "Unknown" ELSE obj.conditions[t]]]

\* what patch.Helper sends: the fields that differ from the snapshot
PatchDiffers(snapshot, obj) ==
  \/ snapshot.finalizer # obj.finalizer
  \/ snapshot.foreign # obj.foreign
  \/ snapshot.phase # obj.phase
  \/ snapshot.conditions # obj.conditions

\* the stored object after the helper's merge patch of snapshot -> obj
Patched(stored, snapshot, obj) ==
  [stored EXCEPT
     !.finalizer = IF snapshot.finalizer # obj.finalizer THEN obj.finalizer ELSE @,
     !.foreign = IF snapshot.finalizer # obj.finalizer \/ snapshot.foreign # obj.foreign
                 THEN obj.foreign ELSE @,
     !.phase = IF snapshot.phase # obj.phase THEN obj.phase ELSE @,
     !.conditions = [t \in ImageBuildConditionTypes |->
                       IF snapshot.conditions[t] # obj.conditions[t]
                       THEN obj.conditions[t] ELSE @[t]]]

\* the API server refuses a write that adds a finalizer to an object being deleted
AddsFinalizer(stored, new) ==
  stored.deletionTimestamp /\ \/ new.finalizer /\ ~stored.finalizer
                              \/ new.foreign /\ ~stored.foreign

\* podName with the architecture made part of the pod's name
podName_PerArchitecture(ibd) ==
  builderPodPrefix \o ibd.Name \o "-" \o ibd.Spec.Architecture

\* line 140: the name of the pod built for an ImageBuild
podName(ibd) == builderPodPrefix \o ibd.Name

\* line 250: the name cleanupBuilderPod deletes
cleanupPodName(ibd) == builderPodPrefix \o ibd.Name

\* provisionerEnvVars without the test of line 179: set for any provisioner
provisionerEnvVars_AnyProvisioner(spec) ==
  IF ~spec.Provisioner.nil
  THEN <<EnvVar("GIT_REPO", spec.Provisioner.Ansible.Repo),
         EnvVar("GIT_BRANCH", spec.Provisioner.Ansible.Branch),
         EnvVar("PLAYBOOK", spec.Provisioner.Ansible.Playbook)>>
  ELSE <<>>

\* lines 177-185: the variables of the ansible provisioner
provisionerEnvVars(spec) ==
  IF ~spec.Provisioner.nil /\ ~spec.Provisioner.Ansible.nil
  THEN <<EnvVar("GIT_REPO", spec.Provisioner.Ansible.Repo),
         EnvVar("GIT_BRANCH", spec.Provisioner.Ansible.Branch),
         EnvVar("PLAYBOOK", spec.Provisioner.Ansible.Playbook)>>
  ELSE <<>>

\* lines 145-148, 177-185, 198-199: the container's environment
envVars(spec) ==
  <<EnvVar("BASE_IMAGE", spec.BaseImage), EnvVar("ARCHITECTURE", spec.Architecture)>>
    \o provisionerEnvVars(spec)
    \o (IF ~spec.Output.PVC.nil
        THEN <<EnvVar("OUTPUT_FILENAME", spec.Output.ImageName)>> ELSE <<>>)

\* lines 149-151, 157-166, 186-190, 200-208: the pod's volumes
volumes(spec) ==
  <<EmptyDir("containers-storage")>>
    \o (IF spec.BaseImagePullSecretName # ""
        THEN <<SecretVolume("baseimage-pull-secret", spec.BaseImagePullSecretName)>>
        ELSE <<>>)
    \o (IF ~spec.Provisioner.nil /\ ~spec.Provisioner.Ansible.nil
        THEN <<EmptyDir("source-repo")>> ELSE <<>>)
    \o (IF ~spec.Output.PVC.nil
        THEN <<PVCVolume("output-pvc", spec.Output.PVC.Name)>> ELSE <<>>)

\* lines 152-154, 168-173, 191-194, 209-212: where the container mounts them
volumeMounts(spec) ==
  <<VolumeMount("containers-storage", "/var/lib/containers/storage", FALSE)>>
    \o (IF spec.BaseImagePullSecretName # ""
        THEN <<VolumeMount("baseimage-pull-secret", "/etc/baseimage-pull-secret", TRUE)>>
        ELSE <<>>)
    \o (IF ~spec.Provisioner.nil /\ ~spec.Provisioner.Ansible.nil
        THEN <<VolumeMount("source-repo", "/source", FALSE)>> ELSE <<>>)
    \o (IF ~spec.Output.PVC.nil
        THEN <<VolumeMount("output-pvc", "/output", FALSE)>> ELSE <<>>)

\* lines 215-218
nodeSelector(spec) ==
  IF spec.Architecture # "" THEN {<<"kubernetes.io/arch", spec.Architecture>>} ELSE {}

\* lines 139-246: the pod for an ImageBuild, and the error: always nil
constructBuilderPod(ibd) ==
  [called |-> TRUE,
   pod |-> [Name |-> podName(ibd), Namespace |-> ibd.Namespace,
            NodeSelector |-> nodeSelector(ibd.Spec),
            RestartPolicy |-> "Never", RunAsUser |-> 0, Privileged |-> TRUE,
            Image |-> "ghcr.io/zarcen/bib-operator/builder:0.1.1",
            Env |-> envVars(ibd.Spec),
            VolumeMounts |-> volumeMounts(ibd.Spec),
            Volumes |-> volumes(ibd.Spec)],
   err |-> FALSE]

\* the values of the variables of an environment named `name`
EnvValues(env, name) == {env[i].Value : i \in {j \in DOMAIN env : env[j].Name = name}}

\* names of a sequence of variables, volumes or mounts
NamesOf(seq) == {seq[i].Name : i \in DOMAIN seq}

(* ----------------------------- initial state --------------------------- *)

\* the ImageBuilds `names`, just created by a user, not yet seen by Reconcile
StoreInit(names, phases, found) ==
  /\ live = names
  /\ imageBuilds \in [Names -> {NoObject} \cup
                        {NewImageBuild(f, p, NoConditions) : f \in BOOLEAN, p \in phases}]
  /\ \A n \in Names : imageBuilds[n].exists <=> n \in names
  /\ pods \in [PodNames -> {NoPod} \cup found]
  /\ \A n \in Names \ names : pods[PodName(n)] = NoPod
  /\ queue = names
  /\ changed = {}
  /\ fails = 0
  /\ pc = [n \in Names |-> "idle"]
  /\ ib = [n \in Names |-> NoObject]
  /\ before = [n \in Names |-> NoObject]
  /\ builderPod = [n \in Names |-> "unread"]
  /\ ibs = [n \in Names |-> NoScope]
  /\ ret = [n \in Names |-> NoReturn]
  /\ calls = [n \in Names |-> NoCalls]
  /\ creates = [n \in Names |-> 0]

\* a namespace without pods
ControllerInit(names, phases) == StoreInit(names, phases, {})

\* no builder pod is followed into its script
NoBuilderRun ==
  /\ imageBuild = [Name |-> "a", Namespace |-> "default", Spec |-> ZeroSpec]
  /\ constructed = NotConstructed
  /\ worker = NoWorker

\* the controller's view
InitWith(names, phases) == ControllerInit(names, phases) /\ NoBuilderRun

Init == InitWith({"a"}, {""})

\* a pod somebody else created under a builder pod's name: no owner reference
UnownedPods == {[exists |-> TRUE, phase |-> ph, owner |-> ""] : ph \in {"Pending", "Running"}}

\* the namespace may already hold a pod with the builder pod's name
InitUnowned == StoreInit({"a"}, {""}, UnownedPods) /\ NoBuilderRun

(* ------------------------ steps of one invocation ---------------------- *)

\* a cluster call may fail with a transient error
Transient == fails < MaxFail /\ fails' = fails + 1

\* a return statement reached before the deferred Close is registered
ReturnNow(n, line, requeue, err, event) ==
  /\ pc' = [pc EXCEPT ![n] = "idle"]
  /\ ret' = [ret EXCEPT ![n] = [line |-> line, requeue |-> requeue, err |-> err]]
  /\ queue' = IF requeue \/ err \/ event THEN queue \cup {n} ELSE queue
  /\ ib' = [ib EXCEPT ![n] = NoObject]
  /\ before' = [before EXCEPT ![n] = NoObject]

\* a return statement after it: the result waits for the deferred Close
Return(n, line, requeue, err) ==
  /\ pc' = [pc EXCEPT ![n] = "close"]
  /\ ret' = [ret EXCEPT ![n] = [line |-> line, requeue |-> requeue, err |-> err]]

\* reconcileDelete up to its first call: the finalizer decides
reconcileDelete(n, obj) ==
  IF obj.finalizer
  THEN pc' = [pc EXCEPT ![n] = "cleanup"] /\ ret' = ret
  ELSE Return(n, 280, FALSE, FALSE)

\* EnterScope with the test of line 90 inverted
EnterScope_Inverted(n, obj) ==
  /\ before' = [before EXCEPT ![n] = obj]
  /\ ib' = [ib EXCEPT ![n] = InitializeConditions(obj)]
  /\ ibs' = [ibs EXCEPT ![n] = [open |-> TRUE, dirty |-> InitializeConditions(obj) # obj,
                                patch |-> "none"]]
  /\ IF ~obj.deletionTimestamp
     THEN reconcileDelete(n, obj)
     ELSE pc' = [pc EXCEPT ![n] = "getPod"] /\ ret' = ret

\* lines 74-97: NewImageBuildScope, the deferred Close, InitializeConditions,
\* then the deletion path or the lookup of the builder pod
EnterScope(n, obj) ==
  /\ before' = [before EXCEPT ![n] = obj]
  /\ ib' = [ib EXCEPT ![n] = InitializeConditions(obj)]
  /\ ibs' = [ibs EXCEPT ![n] = [open |-> TRUE, dirty |-> InitializeConditions(obj) # obj,
                                patch |-> "none"]]
  /\ IF obj.deletionTimestamp
     THEN reconcileDelete(n, obj)
     ELSE pc' = [pc EXCEPT ![n] = "getPod"] /\ ret' = ret

\* the work queue hands a name to Reconcile; one invocation per name at a time
Start(n) ==
  /\ n \in live /\ n \in queue /\ pc[n] = "idle"
  /\ queue' = queue \ {n}
  /\ pc' = [pc EXCEPT ![n] = "get"]
  /\ ret' = [ret EXCEPT ![n] = NoReturn]
  /\ calls' = [calls EXCEPT ![n] = NoCalls]
  /\ builderPod' = [builderPod EXCEPT ![n] = "unread"]
  /\ ibs' = [ibs EXCEPT ![n] = NoScope]
  /\ UNCHANGED <<live, imageBuilds, pods, changed, fails, ib, before, creates>>
  /\ UNCHANGED builderVars

\* GetImageBuild with the finalizer block of lines 66-72 left out
GetImageBuild_NoFinalizer(n) ==
  /\ pc[n] = "get"
  /\ \/ /\ Transient
        /\ ReturnNow(n, 64, FALSE, TRUE, FALSE)
        /\ UNCHANGED <<changed, ibs>>
     \/ /\ ~imageBuilds[n].exists
        /\ ReturnNow(n, 61, FALSE, FALSE, FALSE)
        /\ UNCHANGED <<changed, ibs, fails>>
     \/ /\ imageBuilds[n].exists
        /\ changed' = changed \ {n}
        /\ EnterScope(n, imageBuilds[n])
        /\ UNCHANGED <<queue, fails>>
  /\ UNCHANGED <<live, imageBuilds, pods, builderPod, calls, creates>>
  /\ UNCHANGED builderVars

\* lines 56-72: r.Get of the ImageBuild, and AddFinalizer in memory
GetImageBuild(n) ==
  /\ pc[n] = "get"
  /\ \/ /\ Transient
        /\ ReturnNow(n, 64, FALSE, TRUE, FALSE)
        /\ UNCHANGED <<changed, ibs>>
     \/ /\ ~imageBuilds[n].exists
        /\ ReturnNow(n, 61, FALSE, FALSE, FALSE)
        /\ UNCHANGED <<changed, ibs, fails>>
     \/ /\ imageBuilds[n].exists
        /\ changed' = changed \ {n}
        /\ IF ~imageBuilds[n].finalizer
           THEN /\ pc' = [pc EXCEPT ![n] = "addFinalizer"]
                /\ ib' = [ib EXCEPT ![n] = [imageBuilds[n] EXCEPT !.finalizer = TRUE]]
                /\ UNCHANGED <<before, ibs, ret>>
           ELSE EnterScope(n, imageBuilds[n])
        /\ UNCHANGED <<queue, fails>>
  /\ UNCHANGED <<live, imageBuilds, pods, builderPod, calls, creates>>
  /\ UNCHANGED builderVars

\* the server refuses the Update that adds the finalizer
UpdateRefused(n, obj) ==
  \/ ~imageBuilds[n].exists
  \/ n \in changed
  \/ AddsFinalizer(imageBuilds[n], obj)

\* AddFinalizer with the Update error of line 69 ignored: Reconcile goes on
AddFinalizer_IgnoreError(n) ==
  /\ pc[n] = "addFinalizer"
  /\ calls' = [calls EXCEPT ![n].update = @ + 1]
  /\ \/ /\ \/ Transient
           \/ UpdateRefused(n, ib[n]) /\ fails' = fails
        /\ EnterScope(n, ib[n])
        /\ UNCHANGED <<imageBuilds, queue>>
     \/ /\ ~UpdateRefused(n, ib[n])
        /\ imageBuilds' = [imageBuilds EXCEPT ![n].finalizer = TRUE]
        /\ EnterScope(n, [imageBuilds[n] EXCEPT !.finalizer = TRUE])
        /\ queue' = queue \cup {n}
        /\ fails' = fails
  /\ UNCHANGED <<live, pods, changed, builderPod, creates>>
  /\ UNCHANGED builderVars

\* lines 67-72: r.Update persisting the finalizer; an error returns at line 70
AddFinalizer(n) ==
  /\ pc[n] = "addFinalizer"
  /\ calls' = [calls EXCEPT ![n].update = @ + 1]
  /\ \/ /\ \/ Transient
           \/ UpdateRefused(n, ib[n]) /\ fails' = fails
        /\ ReturnNow(n, 70, TRUE, TRUE, FALSE)
        /\ UNCHANGED <<imageBuilds, ibs>>
     \/ /\ ~UpdateRefused(n, ib[n])
        /\ imageBuilds' = [imageBuilds EXCEPT ![n].finalizer = TRUE]
        /\ EnterScope(n, [imageBuilds[n] EXCEPT !.finalizer = TRUE])
        /\ queue' = queue \cup {n}
        /\ fails' = fails
  /\ UNCHANGED <<live, pods, changed, builderPod, creates>>
  /\ UNCHANGED builderVars

\* GetBuilderPod with the not-found test of line 99 lost: no pod is created
GetBuilderPod_NoCreate(n) ==
  /\ pc[n] = "getPod"
  /\ \/ /\ Transient
        /\ Return(n, 128, FALSE, TRUE)
        /\ UNCHANGED builderPod
     \/ /\ ~pods[PodName(n)].exists
        /\ builderPod' = [builderPod EXCEPT ![n] = "NotFound"]
        /\ Return(n, 135, FALSE, FALSE)
        /\ fails' = fails
     \/ /\ pods[PodName(n)].exists
        /\ builderPod' = [builderPod EXCEPT ![n] = pods[PodName(n)].phase]
        /\ Return(n, 135, FALSE, FALSE)
        /\ fails' = fails
  /\ UNCHANGED <<live, imageBuilds, pods, queue, changed, ib, before, ibs, calls, creates>>
  /\ UNCHANGED builderVars

\* GetBuilderPod asking for a requeue when it found the pod
GetBuilderPod_Requeue(n) ==
  /\ pc[n] = "getPod"
  /\ \/ /\ Transient
        /\ Return(n, 128, FALSE, TRUE)
        /\ UNCHANGED builderPod
     \/ /\ ~pods[PodName(n)].exists
        /\ builderPod' = [builderPod EXCEPT ![n] = "NotFound"]
        /\ pc' = [pc EXCEPT ![n] = "create"]
        /\ UNCHANGED <<ret, fails>>
     \/ /\ pods[PodName(n)].exists
        /\ builderPod' = [builderPod EXCEPT ![n] = pods[PodName(n)].phase]
        /\ Return(n, 135, TRUE, FALSE)
        /\ fails' = fails
  /\ UNCHANGED <<live, imageBuilds, pods, queue, changed, ib, before, ibs, calls, creates>>
  /\ UNCHANGED builderVars

\* lines 94-99, 126-135: r.Get of the builder pod by its name
GetBuilderPod(n) ==
  /\ pc[n] = "getPod"
  /\ \/ /\ Transient
        /\ Return(n, 128, FALSE, TRUE)
        /\ UNCHANGED builderPod
     \/ /\ ~pods[PodName(n)].exists
        /\ builderPod' = [builderPod EXCEPT ![n] = "NotFound"]
        /\ pc' = [pc EXCEPT ![n] = "create"]
        /\ UNCHANGED <<ret, fails>>
     \/ /\ pods[PodName(n)].exists
        /\ builderPod' = [builderPod EXCEPT ![n] = pods[PodName(n)].phase]
        /\ Return(n, 135, FALSE, FALSE)
        /\ fails' = fails
  /\ UNCHANGED <<live, imageBuilds, pods, queue, changed, ib, before, ibs, calls, creates>>
  /\ UNCHANGED builderVars

\* NewBuilderPod without the SetControllerReference of line 111
NewBuilderPod_Unowned(n) == [exists |-> TRUE, phase |-> "Pending", owner |-> ""]

\* lines 104-117: the pod as r.Create stores it, owner set at line 111
NewBuilderPod(n) == [exists |-> TRUE, phase |-> "Pending", owner |-> n]

\* CreateBuilderPod retrying a failed r.Create inside the invocation
CreateBuilderPod_Retry(n) ==
  /\ pc[n] = "create"
  /\ calls' = [calls EXCEPT ![n].create = @ + 1]
  /\ \/ /\ \/ Transient
           \/ pods[PodName(n)].exists /\ fails' = fails
        /\ UNCHANGED <<pods, creates, queue, pc, ret>>
     \/ /\ ~pods[PodName(n)].exists
        /\ pods' = [pods EXCEPT ![PodName(n)] = NewBuilderPod(n)]
        /\ creates' = [creates EXCEPT ![n] = @ + 1]
        /\ queue' = queue \cup {n}
        /\ Return(n, 125, TRUE, FALSE)
        /\ fails' = fails
  /\ UNCHANGED <<live, imageBuilds, changed, ib, before, builderPod, ibs>>
  /\ UNCHANGED builderVars

\* CreateBuilderPod with the TODO of line 123 done without a look at the phase
\* already stored: status.phase set to Building after the create
CreateBuilderPod_SetsBuilding(n) ==
  /\ pc[n] = "create"
  /\ calls' = [calls EXCEPT ![n].create = @ + 1]
  /\ \/ /\ \/ Transient
           \/ pods[PodName(n)].exists /\ fails' = fails
        /\ Return(n, 120, FALSE, TRUE)
        /\ UNCHANGED <<pods, creates, queue, ib>>
     \/ /\ ~pods[PodName(n)].exists
        /\ pods' = [pods EXCEPT ![PodName(n)] = NewBuilderPod(n)]
        /\ creates' = [creates EXCEPT ![n] = @ + 1]
        /\ queue' = queue \cup {n}
        /\ ib' = [ib EXCEPT ![n].phase = PhaseBuilding]
        /\ Return(n, 125, TRUE, FALSE)
        /\ fails' = fails
  /\ UNCHANGED <<live, imageBuilds, changed, before, builderPod, ibs>>
  /\ UNCHANGED builderVars

\* the ImageBuild of name n as Reconcile hands it to constructBuilderPod; the
\* controller's steps do not depend on its spec
ImageBuildOf(n) == [Name |-> n, Namespace |-> "default", Spec |-> ZeroSpec]

\* lines 100-125: construct the pod (an error marks BuilderPodReady False and
\* returns at line 108), set the owner, r.Create
CreateBuilderPod(n) ==
  /\ pc[n] = "create"
  /\ IF constructBuilderPod(ImageBuildOf(n)).err
     THEN /\ ib' = [ib EXCEPT ![n].conditions[BuilderPodReady] = "False"]
          /\ Return(n, 108, FALSE, TRUE)
          /\ UNCHANGED <<calls, pods, creates, queue, fails>>
     ELSE /\ calls' = [calls EXCEPT ![n].create = @ + 1]
          /\ ib' = ib
          /\ \/ /\ \/ Transient
                   \/ pods[PodName(n)].exists /\ fails' = fails
                /\ Return(n, 120, FALSE, TRUE)
                /\ UNCHANGED <<pods, creates, queue>>
             \/ /\ ~pods[PodName(n)].exists
                /\ pods' = [pods EXCEPT ![PodName(n)] = NewBuilderPod(n)]
                /\ creates' = [creates EXCEPT ![n] = @ + 1]
                /\ queue' = queue \cup {n}
                /\ Return(n, 125, TRUE, FALSE)
                /\ fails' = fails
  /\ UNCHANGED <<live, imageBuilds, changed, before, builderPod, ibs>>
  /\ UNCHANGED builderVars

\* cleanupBuilderPod with the Delete error of line 269 ignored
cleanupBuilderPod_IgnoreError(n) ==
  /\ pc[n] = "cleanup"
  /\ calls' = [calls EXCEPT ![n].delete = @ + 1]
  /\ \/ /\ Transient
        /\ ib' = [ib EXCEPT ![n].finalizer = FALSE]
        /\ pc' = [pc EXCEPT ![n] = "removeFinalizer"]
        /\ UNCHANGED <<pods, queue, ret>>
     \/ /\ pods' = [pods EXCEPT ![PodName(n)] = NoPod]
        /\ queue' = IF pods[PodName(n)].exists /\ pods[PodName(n)].owner \in live
                    THEN queue \cup {pods[PodName(n)].owner} ELSE queue
        /\ ib' = [ib EXCEPT ![n].finalizer = FALSE]
        /\ pc' = [pc EXCEPT ![n] = "removeFinalizer"]
        /\ UNCHANGED <<ret, fails>>
  /\ UNCHANGED <<live, imageBuilds, changed, before, builderPod, ibs, creates>>
  /\ UNCHANGED builderVars

\* cleanupBuilderPod without the IsNotFound test of line 252
cleanupBuilderPod_NotFoundIsError(n) ==
  /\ pc[n] = "cleanup"
  /\ calls' = [calls EXCEPT ![n].delete = @ + 1]
  /\ \/ /\ \/ Transient
           \/ ~pods[PodName(n)].exists /\ fails' = fails
        /\ Return(n, 272, FALSE, TRUE)
        /\ UNCHANGED <<pods, queue, ib>>
     \/ /\ pods[PodName(n)].exists
        /\ pods' = [pods EXCEPT ![PodName(n)] = NoPod]
        /\ queue' = IF pods[PodName(n)].owner \in live
                    THEN queue \cup {pods[PodName(n)].owner} ELSE queue
        /\ ib' = [ib EXCEPT ![n].finalizer = FALSE]
        /\ pc' = [pc EXCEPT ![n] = "removeFinalizer"]
        /\ UNCHANGED <<ret, fails>>
  /\ UNCHANGED <<live, imageBuilds, changed, before, builderPod, ibs, creates>>
  /\ UNCHANGED builderVars

\* lines 249-256, 268-275: r.Delete of the builder pod, not-found is no error;
\* on success RemoveFinalizer in memory
cleanupBuilderPod(n) ==
  /\ pc[n] = "cleanup"
  /\ calls' = [calls EXCEPT ![n].delete = @ + 1]
  /\ \/ /\ Transient
        /\ Return(n, 272, FALSE, TRUE)
        /\ UNCHANGED <<pods, queue, ib>>
     \/ /\ pods' = [pods EXCEPT ![PodName(n)] = NoPod]
        /\ queue' = IF pods[PodName(n)].exists /\ pods[PodName(n)].owner \in live
                    THEN queue \cup {pods[PodName(n)].owner} ELSE queue
        /\ ib' = [ib EXCEPT ![n].finalizer = FALSE]
        /\ pc' = [pc EXCEPT ![n] = "removeFinalizer"]
        /\ UNCHANGED <<ret, fails>>
  /\ UNCHANGED <<live, imageBuilds, changed, before, builderPod, ibs, creates>>
  /\ UNCHANGED builderVars

\* lines 275-280: r.Update persisting the removal; the answer replaces the
\* in-memory object
RemoveFinalizer(n) ==
  /\ pc[n] = "removeFinalizer"
  /\ calls' = [calls EXCEPT ![n].update = @ + 1]
  /\ \/ /\ \/ Transient
           \/ UpdateRefused(n, ib[n]) /\ fails' = fails
        /\ Return(n, 277, FALSE, TRUE)
        /\ UNCHANGED <<imageBuilds, ib, queue>>
     \/ /\ ~UpdateRefused(n, ib[n])
        /\ imageBuilds' = [imageBuilds EXCEPT ![n] = Settle([@ EXCEPT !.finalizer = FALSE])]
        /\ ib' = [ib EXCEPT ![n] = [imageBuilds[n] EXCEPT !.finalizer = FALSE]]
        /\ queue' = queue \cup {n}
        /\ Return(n, 280, FALSE, FALSE)
        /\ fails' = fails
  /\ UNCHANGED <<live, pods, changed, before, builderPod, ibs, creates>>
  /\ UNCHANGED builderVars

\* the server refuses the helper's patch
PatchRefused(n) ==
  \/ ~imageBuilds[n].exists
  \/ AddsFinalizer(imageBuilds[n], Patched(imageBuilds[n], before[n], ib[n]))

\* AfterClose with the error of the deferred Close dropped
AfterClose_KeepResult(r, closeErr) == r

\* Reconcile lines 81-86: a Close error replaces a nil error and the result
AfterClose(r, closeErr) ==
  IF closeErr /\ ~r.err THEN [line |-> r.line, requeue |-> FALSE, err |-> TRUE] ELSE r

\* a trigger layer that drops the request after a returned error
Finish_NoRequeue(n, r, event) ==
  /\ pc' = [pc EXCEPT ![n] = "idle"]
  /\ ret' = [ret EXCEPT ![n] = r]
  /\ queue' = IF (r.requeue /\ ~r.err) \/ event THEN queue \cup {n} ELSE queue
  /\ ib' = [ib EXCEPT ![n] = NoObject]
  /\ before' = [before EXCEPT ![n] = NoObject]

\* the invocation ends: the trigger layer requeues on an error or a requeue
Finish(n, r, event) ==
  /\ pc' = [pc EXCEPT ![n] = "idle"]
  /\ ret' = [ret EXCEPT ![n] = r]
  /\ queue' = IF r.requeue \/ r.err \/ event THEN queue \cup {n} ELSE queue
  /\ ib' = [ib EXCEPT ![n] = NoObject]
  /\ before' = [before EXCEPT ![n] = NoObject]

\* scope.Close -> PatchObject -> patchHelper.Patch, deferred at Reconcile line 81
Close(n) ==
  /\ pc[n] = "close"
  /\ IF ~PatchDiffers(before[n], ib[n])
     THEN /\ Finish(n, ret[n], FALSE)
          /\ UNCHANGED <<imageBuilds, calls, ibs, fails>>
     ELSE /\ calls' = [calls EXCEPT ![n].patch = @ + 1]
          /\ \/ /\ \/ Transient
                   \/ PatchRefused(n) /\ fails' = fails
                /\ ibs' = [ibs EXCEPT ![n].patch = "err"]
                /\ Finish(n, AfterClose(ret[n], TRUE), FALSE)
                /\ UNCHANGED imageBuilds
             \/ /\ ~PatchRefused(n)
                /\ imageBuilds' = [imageBuilds EXCEPT
                                     ![n] = Settle(Patched(@, before[n], ib[n]))]
                /\ ibs' = [ibs EXCEPT ![n].patch = "ok"]
                /\ Finish(n, AfterClose(ret[n], FALSE), TRUE)
                /\ fails' = fails
  /\ UNCHANGED <<live, pods, changed, builderPod, creates>>
  /\ UNCHANGED builderVars

(* ----------------------------- environment ----------------------------- *)

\* a user deletes the ImageBuild: the store sets the deletion timestamp
UserDelete(n) ==
  /\ n \in live
  /\ imageBuilds[n].exists /\ ~imageBuilds[n].deletionTimestamp
  /\ imageBuilds' = [imageBuilds EXCEPT ![n] = Settle([@ EXCEPT !.deletionTimestamp = TRUE])]
  /\ changed' = changed \cup {n}
  /\ queue' = queue \cup {n}
  /\ UNCHANGED <<live, pods, fails, pc, ib, before, builderPod, ibs, ret, calls, creates>>
  /\ UNCHANGED builderVars

\* the holder of another finalizer on the ImageBuild releases it
ForeignRelease(n) ==
  /\ n \in live
  /\ imageBuilds[n].exists /\ imageBuilds[n].foreign
  /\ imageBuilds' = [imageBuilds EXCEPT ![n] = Settle([@ EXCEPT !.foreign = FALSE])]
  /\ changed' = changed \cup {n}
  /\ queue' = queue \cup {n}
  /\ UNCHANGED <<live, pods, fails, pc, ib, before, builderPod, ibs, ret, calls, creates>>
  /\ UNCHANGED builderVars

\* the kubelet runs the builder pod to a terminal phase
PodProgress(n) ==
  /\ n \in live
  /\ pods[PodName(n)].exists
  /\ \E ph \in PodPhases :
       /\ \/ pods[PodName(n)].phase = "Pending" /\ ph = "Running"
          \/ pods[PodName(n)].phase = "Running" /\ ph \in {"Succeeded", "Failed"}
       /\ pods' = [pods EXCEPT ![PodName(n)].phase = ph]
  /\ queue' = IF pods[PodName(n)].owner \in live
              THEN queue \cup {pods[PodName(n)].owner} ELSE queue
  /\ UNCHANGED <<live, imageBuilds, changed, fails, pc, ib, before, builderPod, ibs,
                 ret, calls, creates>>
  /\ UNCHANGED builderVars

\* SetupWithManager: any event on the ImageBuild or an owned pod, and the
\* periodic resync, put the name on the queue
Resync(n) ==
  /\ n \in live /\ n \notin queue
  /\ queue' = queue \cup {n}
  /\ UNCHANGED <<live, imageBuilds, pods, changed, fails, pc, ib, before, builderPod,
                 ibs, ret, calls, creates>>
  /\ UNCHANGED builderVars

(* ---------------------------- specification ---------------------------- *)

Reconcile(n) ==
  \/ Start(n)
  \/ GetImageBuild(n)
  \/ AddFinalizer(n)
  \/ GetBuilderPod(n)
  \/ CreateBuilderPod(n)
  \/ cleanupBuilderPod(n)
  \/ RemoveFinalizer(n)
  \/ Close(n)

Environment(n) ==
  \/ UserDelete(n)
  \/ ForeignRelease(n)
  \/ PodProgress(n)
  \/ Resync(n)

Next == \E n \in Names : Reconcile(n) \/ Environment(n)

Spec == Init /\ [][Next]_vars

\* the trigger layer serves a queued name, and a started invocation runs on;
\* the calls of the store fail at most MaxFail times
Fairness == \A n \in Names : WF_vars(Reconcile(n))

FairSpec == Spec /\ Fairness

\* the stored status as Reconcile may find it: any phase already written
SpecStatus == InitWith({"a"}, ImageBuildPhase) /\ [][Next]_vars

\* two ImageBuilds of one namespace; only the first may carry another
\* finalizer
InitTwo == InitWith(Names, {""}) /\ ~imageBuilds["b"].foreign

\* the two ImageBuilds reconciled concurrently
SpecTwo == InitTwo /\ [][Next]_vars

\* the ImageBuild is created in a namespace that may hold a pod of its
\* builder pod's name
SpecUnowned == InitUnowned /\ [][Next]_vars

(* ------------------------- the builder pod's run ----------------------- *)

\* a new ImageBuild of any spec, for which the pod is about to be constructed
BuilderInit ==
  /\ ControllerInit({}, {""})
  /\ imageBuild \in ImageBuilds
  /\ constructed = NotConstructed
  /\ worker = NoWorker

\* Reconcile line 104: the constructor is called on the ImageBuild
Construct ==
  /\ ~constructed.called
  /\ constructed' = constructBuilderPod(imageBuild)
  /\ UNCHANGED <<imageBuild, worker>>
  /\ UNCHANGED controllerVars

\* "$VAR" in a script: the value the container's environment gives it
Getenv(env, name) ==
  IF \E i \in DOMAIN env : env[i].Name = name
  THEN env[CHOOSE i \in DOMAIN env :
             env[i].Name = name /\ \A j \in DOMAIN env : env[j].Name = name => j <= i].Value
  ELSE ""

\* the pod runs: the builder image starts its script with the pod's
\* environment; the auth file is there only under a mounted pull secret
RunScript(script) ==
  /\ constructed.called /\ ~constructed.err
  /\ worker.status = "none"
  /\ \E auth \in {FALSE, "baseimage-pull-secret" \in NamesOf(constructed.pod.VolumeMounts)} :
       worker' = [NoWorker EXCEPT !.script = script, !.env = constructed.pod.Env,
                                  !.authFile = auth, !.pc = 1, !.status = "running"]
  /\ UNCHANGED <<imageBuild, constructed>>
  /\ UNCHANGED controllerVars

\* the command the script is at
Current == Script(worker.script)[worker.pc]

AtCommand == worker.status = "running" /\ worker.pc \in DOMAIN Script(worker.script)

\* what a command that succeeds does to the container and the mounts
Effect(w, cmd) ==
  CASE cmd = "from" -> [w EXCEPT !.container = TRUE]
    [] cmd = "mount" -> [w EXCEPT !.mounted = @ + 1]
    [] cmd = "bind" -> [w EXCEPT !.devBound = TRUE]
    [] cmd = "unbind" -> [w EXCEPT !.devBound = FALSE]
    [] cmd = "umount" -> [w EXCEPT !.mounted = IF @ > 0 THEN @ - 1 ELSE 0]
    [] cmd = "rm" -> [w EXCEPT !.container = FALSE]
    [] OTHER -> w

\* `if [ -n "$VAR" ]` with VAR empty: the command is not run
SkipStep ==
  /\ AtCommand
  /\ Current.test # "" /\ Getenv(worker.env, Current.test) = ""
  /\ worker' = [worker EXCEPT !.pc = @ + 1]
  /\ UNCHANGED <<imageBuild, constructed>>
  /\ UNCHANGED controllerVars

\* the command runs and succeeds
ExecStep ==
  /\ AtCommand
  /\ Current.test = "" \/ Getenv(worker.env, Current.test) # ""
  /\ worker' = [Effect(worker, Current.cmd) EXCEPT
                  !.pc = @ + 1, !.trace = Append(@, Current.cmd)]
  /\ UNCHANGED <<imageBuild, constructed>>
  /\ UNCHANGED controllerVars

\* FailStep without `set -e`: the script goes on after the failed command
FailStep_NoErrexit ==
  /\ AtCommand
  /\ Current.test = "" \/ Getenv(worker.env, Current.test) # ""
  /\ worker.failed = ""
  /\ worker' = [worker EXCEPT !.pc = @ + 1, !.failed = Current.cmd]
  /\ UNCHANGED <<imageBuild, constructed>>
  /\ UNCHANGED controllerVars

\* `set -e` (line 2 of both scripts): the command fails, the script exits
\* with its status
FailStep ==
  /\ AtCommand
  /\ Current.test = "" \/ Getenv(worker.env, Current.test) # ""
  /\ worker' = [worker EXCEPT !.status = "exited", !.exit = 1, !.failed = Current.cmd]
  /\ UNCHANGED <<imageBuild, constructed>>
  /\ UNCHANGED controllerVars

\* the end of the file: exit status 0
ExitScript ==
  /\ worker.status = "running" /\ worker.pc = Len(Script(worker.script)) + 1
  /\ worker' = [worker EXCEPT !.status = "exited", !.exit = 0]
  /\ UNCHANGED <<imageBuild, constructed>>
  /\ UNCHANGED controllerVars

BuilderNext ==
  \/ Construct
  \/ \E script \in Scripts : RunScript(script)
  \/ SkipStep
  \/ ExecStep
  \/ FailStep
  \/ ExitScript

\* one builder pod from its construction to the exit of its script
SpecBuilder == BuilderInit /\ [][BuilderNext]_vars

(* ------------------------------ properties ----------------------------- *)

\* an invocation of n has returned and no other has started
Returned(n) == pc[n] = "idle" /\ ret[n].line # 0

\* C1: idempotent creation.  However many invocations ran on an ImageBuild,
\* at most one builder pod create has succeeded; an invocation that found the
\* pod under PodName(n) issued no create; and once an invocation has returned
\* from the create (line 125) or from the pod-exists branch (line 135),
\* exactly one create has succeeded and the pod is there.
IdempotentCreation ==
  \A n \in Names :
    /\ creates[n] <= 1
    /\ builderPod[n] \in PodPhases => calls[n].create = 0
    /\ Returned(n) /\ ret[n].line \in {125, 135}
         => creates[n] = 1 /\ pods[PodName(n)].exists

\* a second invocation found the pod the first one created, and returned
IdempotentCreationWitness ==
  /\ Returned("a") /\ ret["a"].line = 135 /\ ~ret["a"].err
  /\ creates["a"] = 1 /\ ~imageBuilds["a"].deletionTimestamp

\* C2: finalizer ordering.  A builder pod create is issued only while the
\* store holds the ImageBuild with the finalizer, and when the Update that
\* persists the finalizer fails the invocation returns at once: no create,
\* no pod.
FinalizerOrdering ==
  [][\A n \in Names :
       /\ calls'[n].create > calls[n].create
            => imageBuilds[n].exists /\ imageBuilds[n].finalizer
       /\ pc[n] = "addFinalizer" /\ pc'[n] # "addFinalizer" /\ ~imageBuilds'[n].finalizer
            => pc'[n] = "idle" /\ ret'[n].err /\ calls'[n].create = 0 /\ pods' = pods]_vars

\* the pod was created in the invocation that persisted the finalizer
FinalizerOrderingWitness ==
  /\ Returned("a") /\ ret["a"].line = 125
  /\ calls["a"].update = 1 /\ calls["a"].create = 1
  /\ imageBuilds["a"].finalizer /\ pods[PodName("a")].exists

MutatingCalls(n) == calls[n].update + calls[n].create + calls[n].delete + calls[n].patch

DeletionCompletes ==
  \A n \in Names :
    (/\ imageBuilds[n].exists /\ imageBuilds[n].deletionTimestamp
     /\ imageBuilds[n].finalizer /\ ~imageBuilds[n].foreign
     /\ pods[PodName(n)].exists)
    ~> (/\ ~imageBuilds[n].exists /\ ~pods[PodName(n)].exists
        /\ Returned(n) /\ ret[n].line = 61)

\* after the deletion of a running pod and of the finalizer, a later
\* invocation fetched the ImageBuild and got not-found
DeletionCompletesWitness ==
  /\ Returned("a") /\ ret["a"].line = 61 /\ ~ret["a"].err
  /\ creates["a"] = 1 /\ ~pods[PodName("a")].exists /\ ~imageBuilds["a"].exists

\* the order of the phases: Failed is final
PhaseRank(p) ==
  CASE p = "" -> 0
    [] p = PhasePending -> 1
    [] p = PhaseBuilding -> 2
    [] p = PhasePublishing -> 3
    [] p = PhaseSucceeded -> 4
    [] p = PhaseFailed -> 5

\* C8: phase monotonicity.  The stored status.phase of an ImageBuild never
\* goes back: each step leaves it, advances it, or sets it to Failed; from
\* Succeeded or Failed it never becomes Pending or Building.
PhaseMonotonic ==
  [][\A n \in Names :
       imageBuilds[n].exists /\ imageBuilds'[n].exists
         => \/ imageBuilds'[n].phase = PhaseFailed
            \/ PhaseRank(imageBuilds'[n].phase) >= PhaseRank(imageBuilds[n].phase)]_vars

\* an invocation created a pod for an ImageBuild whose phase was already
\* terminal, and its exit patch was written
PhaseMonotonicWitness ==
  /\ Returned("a") /\ ret["a"].line = 125 /\ ibs["a"].patch = "ok"
  /\ imageBuilds["a"].phase \in {PhaseSucceeded, PhaseFailed}

\* C9 as claimed: an invocation that found the builder pod Failed and
\* returned without error has recorded phase Failed and BuilderPodReady
\* False, and asked for no requeue.
WorkerFailureRecorded ==
  \A n \in Names :
    Returned(n) /\ builderPod[n] = "Failed" /\ ~ret[n].err
      => /\ imageBuilds[n].phase = PhaseFailed
         /\ imageBuilds[n].conditions[BuilderPodReady] = "False"
         /\ ~ret[n].requeue

\* C10 as claimed: an invocation that found the builder pod Succeeded and
\* returned without error has advanced the phase to Publishing or Succeeded
\* and set BuilderPodReady and OutputReady to True.
WorkerSuccessRecorded ==
  \A n \in Names :
    Returned(n) /\ builderPod[n] = "Succeeded" /\ ~ret[n].err
      => /\ imageBuilds[n].phase \in {PhasePublishing, PhaseSucceeded}
         /\ imageBuilds[n].conditions[BuilderPodReady] = "True"
         /\ imageBuilds[n].conditions[OutputReady] = "True"

\* the spec sets the ansible provisioner variant
HasAnsible(spec) == ~spec.Provisioner.nil /\ ~spec.Provisioner.Ansible.nil

\* C11 as claimed: output exclusivity.  constructBuilderPod called on a spec
\* with more than one output variant set returns an error.
OutputExclusivity ==
  constructed.called /\ Cardinality(OutputVariants(imageBuild.Spec)) > 1
    => constructed.err

\* C12: deterministic naming.  The constructed pod has the name the lookup
\* of Reconcile (line 96) and the delete of cleanupBuilderPod (line 250) use
\* and the namespace of the ImageBuild, and the constructor gives the same
\* name and namespace for every other spec under the same identity.
DeterministicNaming ==
  constructed.called =>
    /\ constructed.pod.Name = PodName(imageBuild.Name)
    /\ constructed.pod.Name = cleanupPodName(imageBuild)
    /\ constructed.pod.Namespace = imageBuild.Namespace
    /\ worker.status = "none" =>
         \A spec \in ImageBuildSpecs :
           LET other == constructBuilderPod([imageBuild EXCEPT !.Spec = spec]).pod
           IN other.Name = constructed.pod.Name
              /\ other.Namespace = constructed.pod.Namespace

\* a pod constructed for ImageBuild builds/b with a non-default spec
DeterministicNamingWitness ==
  /\ constructed.called
  /\ imageBuild.Name = "b" /\ imageBuild.Namespace = "builds"
  /\ imageBuild.Spec.Architecture = "arm64" /\ HasAnsible(imageBuild.Spec)
  /\ constructed.pod.Name = "imgbldr-b" /\ constructed.pod.Namespace = "builds"

Ran(w) == {w.trace[i] : i \in DOMAIN w.trace}

\* C14 as claimed: env-contract agreement.  For an ImageBuild with the
\* ansible provisioner, every variable the running script tests is one the
\* constructor has set, and a run that exits with status 0 has cloned the
\* source and run the playbook.
EnvContractAgreement ==
  worker.status # "none" /\ HasAnsible(imageBuild.Spec) =>
    /\ ScriptTests(worker.script) \subseteq NamesOf(worker.env)
    /\ worker.status = "exited" /\ worker.exit = 0
         => {"clone", "provision"} \subseteq Ran(worker)

\* C15 as claimed: device bind-mount cleanup.  No script exits, with or
\* without an error, while the bind mount of /dev is in place.
DeviceBindMountCleanup ==
  worker.status = "exited" => ~worker.devBound

\* C16: worker fail-fast.  A command that fails ends the script at that
\* command with a non-zero exit status; no command runs after it, so no
\* archive is written after a failed playbook.
WorkerFailFast ==
  [][/\ worker'.failed # ""
          => /\ worker'.status = "exited" /\ worker'.exit # 0
             /\ worker'.trace = worker.trace
             /\ worker'.failed = "provision" => "archive" \notin Ran(worker')
     /\ worker.failed # "" => worker' = worker]_vars

\* the playbook failed on a mounted container: the script exited with 1
WorkerFailFastWitness ==
  /\ worker.status = "exited" /\ worker.exit = 1 /\ worker.failed = "provision"
  /\ worker.mounted = 1 /\ "archive" \notin Ran(worker)

\* the order of the commands of a build; clone and provision are optional
StepOrder ==
  <<"from", "mount", "bind", "clone", "provision", "unbind", "umount", "mount",
    "archive", "umount", "rm">>

\* C20 as claimed: worker step order.  A run that exits with status 0 has
\* executed the commands of StepOrder in that order, clone and provision
\* only if they ran at all, and leaves no mount and no container.
WorkerStepOrder ==
  worker.status = "exited" /\ worker.exit = 0 =>
    LET Executed(cmd) == cmd \notin {"clone", "provision"} \/ cmd \in Ran(worker)
    IN /\ worker.trace = SelectSeq(StepOrder, Executed)
       /\ worker.mounted = 0 /\ ~worker.devBound /\ ~worker.container

\* C17: delete failure retains the finalizer.  When the delete of the
\* builder pod fails, the invocation returns the error from line 272 with
\* the finalizer still on its in-memory object and nothing written; after
\* such a return the store still holds the ImageBuild with its finalizer,
\* no Update was issued, and the name is queued again.
DeleteFailureRetainsFinalizer ==
  [][\A n \in Names :
       /\ pc[n] = "cleanup" /\ pc'[n] # "cleanup" /\ fails' > fails
            => /\ pc'[n] = "close" /\ ret'[n].line = 272 /\ ret'[n].err
               /\ ib'[n].finalizer
               /\ imageBuilds' = imageBuilds /\ pods' = pods
       /\ ret'[n].line = 272
            => /\ ret'[n].err /\ calls'[n].update = 0
               /\ imageBuilds'[n].exists /\ imageBuilds'[n].finalizer
               /\ pc'[n] = "idle" => n \in queue']_vars

\* the delete of an existing pod failed and the invocation has returned
DeleteFailureRetainsFinalizerWitness ==
  /\ Returned("a") /\ ret["a"].line = 272 /\ ret["a"].err
  /\ calls["a"].delete = 1 /\ pods[PodName("a")].exists
  /\ imageBuilds["a"].deletionTimestamp /\ imageBuilds["a"].finalizer

\* C18 as claimed: deletion races are success.  With no call failing for a
\* transient reason, an invocation that found the ImageBuild gone at its
\* fetch (line 61) or that went through the deletion path to its end
\* (line 280), the pod there or not, returns without error.
DeletionRacesAreSuccess ==
  \A n \in Names :
    Returned(n) /\ fails = 0 /\ ret[n].line \in {61, 280} => ~ret[n].err

\* C19 as claimed: the deletion path with no finalizer is a no-op.  An
\* invocation that fetched an ImageBuild with the deletion timestamp and
\* without the finalizer issues no mutating call and returns without error.
NoFinalizerDeletionNoOp ==
  [][\A n \in Names :
       pc[n] = "addFinalizer" /\ ib[n].deletionTimestamp /\ pc'[n] # pc[n]
         => calls'[n] = NoCalls /\ ~ret'[n].err]_vars

\* C21 as claimed: acquisition first.  When the creation of the working
\* container (buildah from) fails, no other command has run, and the script
\* has exited, so none runs.
AcquireFirst ==
  worker.failed = "from" => worker.trace = <<>> /\ worker.status = "exited"

RunningJobLeftAlone ==
  [][\A n \in Names :
       /\ builderPod[n] = "unread" /\ builderPod'[n] \in {"Pending", "Running"}
            => /\ pods' = pods /\ pc'[n] = "close"
               /\ ret'[n] = [line |-> 135, requeue |-> FALSE, err |-> FALSE]
       /\ builderPod[n] \in {"Pending", "Running"} /\ pc'[n] # pc[n]
            => /\ pods' = pods
               /\ calls'[n].create = 0 /\ calls'[n].delete = 0
               /\ imageBuilds'[n].exists
                    => /\ imageBuilds'[n].phase = imageBuilds[n].phase
                       /\ \A t \in ImageBuildConditionTypes :
                            imageBuilds[n].conditions[t] # ""
                              => imageBuilds'[n].conditions[t] = imageBuilds[n].conditions[t]
       /\ /\ builderPod[n] \in {"Pending", "Running"}
          /\ pc[n] = "close" /\ pc'[n] = "idle" /\ ibs'[n].patch # "err"
          => ~ret'[n].err /\ ~ret'[n].requeue]_vars

\* an invocation found its pod Running and has returned
RunningJobLeftAloneWitness ==
  /\ Returned("a") /\ builderPod["a"] = "Running"
  /\ ret["a"] = [line |-> 135, requeue |-> FALSE, err |-> FALSE]
  /\ pods[PodName("a")].exists /\ pods[PodName("a")].phase = "Running"

TransientErrorsSurfaced ==
  [][\A n \in Names :
       /\ pc[n] \in {"get", "getPod"} /\ pc'[n] # pc[n] /\ fails' > fails
            => ret'[n].err
       /\ calls'[n].update > calls[n].update /\ imageBuilds' = imageBuilds
            => ret'[n].err
       /\ calls'[n].create > calls[n].create /\ pods' = pods
            => ret'[n].err
       /\ calls'[n].patch > calls[n].patch /\ ibs'[n].patch = "err"
            => ret'[n].err /\ (~ret[n].err => ~ret'[n].requeue)
       /\ pc[n] = "close" /\ ret[n].err => ret'[n].err
       /\ pc'[n] = "idle" /\ pc[n] # "idle" /\ ~ret'[n].err
            => fails' = fails /\ ibs'[n].patch # "err"]_vars

\* the create succeeded and the exit patch failed: the invocation returned
\* an error
TransientErrorsSurfacedWitness ==
  /\ Returned("a") /\ ret["a"].line = 125 /\ ret["a"].err /\ ~ret["a"].requeue
  /\ ibs["a"].patch = "err" /\ pods[PodName("a")].exists

\* C27: liveness of creation.  Under fair re-invocation and a store whose
\* calls fail only finitely often, an ImageBuild in the store that is not
\* marked for deletion leads to the ImageBuild holding the controller's
\* finalizer while a pod with its deterministic name exists, unless it is
\* marked for deletion first.
LivenessOfCreation ==
  \A n \in Names :
    (imageBuilds[n].exists /\ ~imageBuilds[n].deletionTimestamp)
    ~> \/ imageBuilds[n].finalizer /\ pods[PodName(n)].exists
       \/ imageBuilds[n].deletionTimestamp
       \/ ~imageBuilds[n].exists

\* the finalizer is held and the pod exists although calls failed MaxFail
\* times on the way and the ImageBuild was never marked for deletion
LivenessOfCreationWitness ==
  /\ imageBuilds["a"].exists /\ ~imageBuilds["a"].deletionTimestamp
  /\ imageBuilds["a"].finalizer /\ pods[PodName("a")].exists
  /\ creates["a"] = 1 /\ fails = MaxFail

\* C29: the finalizer is removed only on deletion.  A step that takes the
\* controller's finalizer off the stored ImageBuild, or that calls Delete on
\* the builder pod or removes it, belongs to an invocation whose fetched
\* ImageBuild carried the deletion timestamp.
FinalizerRemovedOnlyOnDeletion ==
  [][\A n \in Names :
       /\ imageBuilds[n].finalizer /\ ~imageBuilds'[n].finalizer => before[n].deletionTimestamp
       /\ calls'[n].delete > calls[n].delete => before[n].deletionTimestamp
       /\ pods[PodName(n)].exists /\ ~pods'[PodName(n)].exists => before[n].deletionTimestamp
       /\ pc'[n] = "removeFinalizer" => before[n].deletionTimestamp]_vars

\* an invocation deleted the pod it had created and removed the finalizer,
\* and an earlier one had created the pod while no deletion was requested
FinalizerRemovedOnlyOnDeletionWitness ==
  /\ Returned("a") /\ ret["a"].line = 280 /\ calls["a"].delete = 1
  /\ calls["a"].update = 1 /\ creates["a"] = 1 /\ ~pods[PodName("a")].exists

\* C30: only the owned pod is touched.  The pod that the lookup of lines
\* 94-99 finds and takes for the builder pod, and the pod that
\* cleanupBuilderPod removes, carries the owner reference of the ImageBuild
\* being reconciled.
OnlyOwnedPodTouched ==
  [][\A n \in Names :
       /\ builderPod[n] = "unread" /\ builderPod'[n] \notin {"unread", "NotFound"}
            => pods[PodName(n)].owner = n
       /\ pods[PodName(n)].exists /\ ~pods'[PodName(n)].exists
            => pods[PodName(n)].owner = n]_vars

====
